---- MODULE Spec2Model ----
(***************************************************************************)
(* Model of createStaleWhileRevalidateCache (src/src/index.ts).            *)
(*                                                                         *)
(* One engine instance serves up to MaxCalls overlapping get() calls       *)
(* (staleWhileRevalidate).  JavaScript runs every synchronous block to     *)
(* completion, so each action is one such block: the code between two      *)
(* suspension points (the await of the two storage reads, line 66, and the *)
(* await of the producer, line 51).  The storage backend, the clock and    *)
(* the producers are the environment.                                      *)
(***************************************************************************)
EXTENDS Integers, Sequences, FiniteSets, TLC

\* ------------------------------------------------------------------ bounds

MaxCalls == 2
MaxTime == 2
MaxThreshold == 1

\* ------------------------------------------------------------ value domains

Calls == 1..MaxCalls

\* The cache keys callers pass; Bystander is a slot no call derives.
Keys == {"k"}
Bystander == "other"

\* The payloads: "" is a falsy JavaScript value.  Storage starts out holding
\* Cached (when it holds anything); the producers return one of Produced.
Cached == "a"
Produced == {"", "b"}
Values == {Cached} \cup Produced

\* A JavaScript value or a raw storage string: null, or a string.
Null == [null |-> TRUE, s |-> ""]
Str(s) == [null |-> FALSE, s |-> s]

\* line 45: const timeKey = `${key}_time`
\* Mutant: the timestamp slot is one fixed slot, not derived from the key.
TimeKeyShared(k) == Bystander

TimeKey(k) == k \o "_time"

Slots == Keys \cup {TimeKey(k) : k \in Keys} \cup {Bystander}

\* The codec of the configuration (line 32-33): serialize tags the payload,
\* deserialize strips the tag and maps an absent raw value to null.
Serialize(v) == "s:" \o v
Deserialize(raw) ==
  IF raw.null THEN Null
  ELSE Str(CHOOSE v \in Values : Serialize(v) = raw.s)

\* line 73: Date.now() counts from the epoch, so every reading lies above any
\* finite threshold of the configuration; the model watches MaxTime ticks
\* from StartTime on.
StartTime == MaxThreshold + 1
EndTime == StartTime + MaxTime

\* line 57: Date.now().toString()
TimeString(t) == ToString(t)

\* line 74: Number(cachedTime); Number(null) is 0.
NumberOf(raw) ==
  IF raw.null THEN 0
  ELSE CHOOSE n \in 0..EndTime : TimeString(n) = raw.s

\* line 9-16
EmitterEvents ==
  [cacheHit |-> "cacheHit", cacheExpired |-> "cacheExpired",
   cacheMiss |-> "cacheMiss", invoke |-> "invoke",
   revalidate |-> "revalidate", revalidateFailed |-> "revalidateFailed"]

\* An emitted event with the part of its payload the claims read.
Event(name, error) == [name |-> name, error |-> error]

\* line 31: maxTimeToLive is a number or Infinity.
Infinity == [inf |-> TRUE, n |-> 0]
Finite(n) == [inf |-> FALSE, n |-> n]

VARIABLES
  storage,          \* the backend: slot -> raw value (Null when absent)
  pending,          \* setItem calls issued and not yet applied by the backend
  now,              \* Date.now()
  minTimeToStale,   \* configuration, fixed at construction
  maxTimeToLive,
  call,             \* per get() call: its position, locals and history
  unhandled         \* calls whose revalidate() rejection nobody handled

vars == <<storage, pending, now, minTimeToStale, maxTimeToLive, call, unhandled>>

\* ---------------------------------------------------------------- the code

\* Mutant: the expiry test counts on minTimeToStale <= maxTimeToLive.
ExpiredWhenOrdered(age) ==
  /\ ~maxTimeToLive.inf
  /\ age > maxTimeToLive.n
  /\ minTimeToStale <= maxTimeToLive.n

\* Mutant: the expiry test is off by one.
ExpiredOffByOne(age) == ~maxTimeToLive.inf /\ age > maxTimeToLive.n + 1

\* line 76: cachedAge > maxTimeToLive
Expired(age) == ~maxTimeToLive.inf /\ age > maxTimeToLive.n

\* Mutant: the test is for presence, not truthiness.
TruthyWhenPresent(v) == ~v.null

\* line 87: if (cachedValue)
Truthy(v) == ~v.null /\ v.s # ""

\* Mutants of the staleness test: strict comparison; no test at all; and a
\* single-flight guard that skips revalidation while another call on the
\* same key is revalidating.
ShouldRevalidateStrict(c, age) == age > minTimeToStale
ShouldRevalidateAlways(c, age) == TRUE
ShouldRevalidateSingleFlight(c, age) ==
  /\ age >= minTimeToStale
  /\ \A d \in Calls \ {c} :
       ~(call[d].key = call[c].key /\ call[d].rv = "running")

\* line 90: if (cachedAge >= minTimeToStale), asked by call c
ShouldRevalidate(c, age) == age >= minTimeToStale

\* Mutant: the hit path awaits revalidate() too.
AwaitedAlways(hit) == TRUE

\* line 93 against line 101: a hit does not await revalidate(), a miss does.
Awaited(hit) == ~hit

\* Mutant: no handler on the background revalidate().
CatchMissing == FALSE

\* line 93: .catch(() => {}) is attached to the background revalidate().
CatchAttached == TRUE

\* Mutant: the timestamp is written before the value.
PersistTimeFirst(k, v, t) ==
  << [slot |-> TimeKey(k), raw |-> Str(TimeString(t))],
     [slot |-> k, raw |-> Str(Serialize(v))] >>

\* Mutant: the timestamp write is forgotten.
PersistValueOnly(k, v, t) == << [slot |-> k, raw |-> Str(Serialize(v))] >>

\* line 56-57: the two setItem calls, in the order issued.
Persist(k, v, t) ==
  << [slot |-> k, raw |-> Str(Serialize(v))],
     [slot |-> TimeKey(k), raw |-> Str(TimeString(t))] >>

\* A setItem call of get() call c, as the backend queues it.
Issued(c, w) == [slot |-> w.slot, raw |-> w.raw, by |-> c]

\* Mutant: the catch block throws an error of its own.
RethrownOther(error) == "revalidateError"

\* line 60-63: the error revalidate() rethrows after emitting revalidateFailed.
Rethrown(error) == error

NewCall ==
  [pc |-> "idle", key |-> "", gotValue |-> FALSE, gotTime |-> FALSE,
   readFailed |-> FALSE,
   rawValue |-> Null, rawTime |-> Null, cachedValue |-> Null, cachedAge |-> 0,
   expired |-> FALSE, path |-> "none", background |-> FALSE,
   rv |-> "none", fn |-> "notCalled", fnCalls |-> 0, produced |-> Null,
   persist |-> "none", events |-> <<>>, issued |-> <<>>,
   result |-> Null, error |-> "none", rvError |-> "none", settled |-> 0,
   keyFn |-> FALSE, keyCalls |-> 0, asked |-> <<>>]

\* Mutant: a function key is called again to derive the timestamp key.
KeyEvaluatedPerSlot(isFn) == IF isFn THEN 2 ELSE 0

\* line 44: how often get() calls cacheKey, by whether it is a function.
KeyEvaluations(isFn) == IF isFn THEN 1 ELSE 0

\* The rank of the producer settling now among the producers settled so far.
SettleRank == 1 + Cardinality({d \in Calls : call[d].settled > 0})

Init ==
  /\ now = StartTime
  /\ minTimeToStale \in 0..MaxThreshold
  /\ maxTimeToLive \in {Finite(n) : n \in 0..MaxThreshold} \cup {Infinity}
  /\ \E entry \in [Keys -> {"absent", "present"}] :
       storage = [s \in Slots |->
                    IF s \in Keys /\ entry[s] = "present" THEN Str(Serialize(Cached))
                    ELSE IF \E k \in Keys : s = TimeKey(k) /\ entry[k] = "present"
                         THEN Str(TimeString(StartTime))
                    ELSE Null]
  /\ pending = <<>>
  /\ call = [c \in Calls |-> NewCall]
  /\ unhandled = {}

\* line 42-45 and the two getItem calls of line 66-69 being issued.
Invoke(c, k, isFn) ==
  /\ call[c].pc = "idle"
  /\ \A d \in Calls : d < c => call[d].pc # "idle"
  /\ call' = [call EXCEPT ![c].pc = "reading",
                          ![c].key = k,
                          ![c].keyFn = isFn,
                          ![c].keyCalls = KeyEvaluations(isFn),
                          ![c].asked = <<k, TimeKey(k)>>,
                          ![c].events = <<Event(EmitterEvents.invoke, "none")>>]
  /\ UNCHANGED <<storage, pending, now, minTimeToStale, maxTimeToLive, unhandled>>

\* The backend answers storage.getItem(key) (line 67), or rejects it.
ReadValue(c) ==
  /\ call[c].pc = "reading"
  /\ ~call[c].gotValue
  /\ \/ call' = [call EXCEPT ![c].gotValue = TRUE,
                             ![c].rawValue = storage[call[c].key]]
     \/ call' = [call EXCEPT ![c].pc = "rejected",
                             ![c].readFailed = TRUE,
                             ![c].error = "storageError"]
  /\ UNCHANGED <<storage, pending, now, minTimeToStale, maxTimeToLive, unhandled>>

\* Mutant: a rejected read of the timestamp is taken for an absent one.
ReadTimeDefaulted(c) ==
  /\ call[c].pc = "reading"
  /\ call[c].gotValue
  /\ ~call[c].gotTime
  /\ \/ call' = [call EXCEPT ![c].gotTime = TRUE,
                             ![c].rawTime = storage[TimeKey(call[c].key)]]
     \/ call' = [call EXCEPT ![c].gotTime = TRUE,
                             ![c].readFailed = TRUE,
                             ![c].rawTime = Null]
  /\ UNCHANGED <<storage, pending, now, minTimeToStale, maxTimeToLive, unhandled>>

\* The backend answers storage.getItem(timeKey) (line 68), issued second, or
\* rejects it.
ReadTime(c) ==
  /\ call[c].pc = "reading"
  /\ call[c].gotValue
  /\ ~call[c].gotTime
  /\ \/ call' = [call EXCEPT ![c].gotTime = TRUE,
                             ![c].rawTime = storage[TimeKey(call[c].key)]]
     \/ call' = [call EXCEPT ![c].pc = "rejected",
                             ![c].readFailed = TRUE,
                             ![c].error = "storageError"]
  /\ UNCHANGED <<storage, pending, now, minTimeToStale, maxTimeToLive, unhandled>>

\* Mutant: the hit branch does not return (line 96) and falls through to the
\* cacheMiss of line 99 before its revalidate.
ClassifyEventsFallThrough(expired, hit, revalidates, failed) ==
  (IF expired THEN <<Event(EmitterEvents.cacheExpired, "none")>> ELSE <<>>)
  \o (IF hit THEN <<Event(EmitterEvents.cacheHit, "none")>> ELSE <<>>)
  \o <<Event(EmitterEvents.cacheMiss, "none")>>
  \o (IF revalidates THEN <<Event(EmitterEvents.revalidate, "none")>> ELSE <<>>)
  \o (IF failed THEN <<Event(EmitterEvents.revalidateFailed, "producerError")>>
      ELSE <<>>)

\* The events of line 76-101 in the order emitted: cacheExpired (line 77),
\* cacheHit (line 88) or cacheMiss (line 99), revalidate (line 49) when
\* revalidate() is called, revalidateFailed (line 61) when fn throws at once.
ClassifyEvents(expired, hit, revalidates, failed) ==
  (IF expired THEN <<Event(EmitterEvents.cacheExpired, "none")>> ELSE <<>>)
  \o (IF hit THEN <<Event(EmitterEvents.cacheHit, "none")>>
      ELSE <<Event(EmitterEvents.cacheMiss, "none")>>)
  \o (IF revalidates THEN <<Event(EmitterEvents.revalidate, "none")>> ELSE <<>>)
  \o (IF failed THEN <<Event(EmitterEvents.revalidateFailed, "producerError")>>
      ELSE <<>>)

\* line 71-101, the block after both reads: classification, the events, and
\* revalidate() up to its await of fn() (line 47-51), where fn may throw at
\* once (line 60-63).
Classify(c, throws) ==
  LET me == call[c]
      deserialized == Deserialize(me.rawValue)
      cachedAge == now - NumberOf(me.rawTime)
      expired == Expired(cachedAge)
      cachedValue == IF expired THEN Null ELSE deserialized
      hit == Truthy(cachedValue)
      revalidates == IF hit THEN ShouldRevalidate(c, cachedAge) ELSE TRUE
      background == ~Awaited(hit)
      failed == revalidates /\ throws
      error == Rethrown("producerError")
      emitted == me.events \o ClassifyEvents(expired, hit, revalidates, failed)
  IN
  /\ me.pc = "reading"
  /\ me.gotValue /\ me.gotTime
  /\ (~revalidates) => ~throws
  /\ call' = [call EXCEPT
       ![c].cachedValue = cachedValue,
       ![c].cachedAge = cachedAge,
       ![c].expired = expired,
       ![c].path = IF ~hit THEN "miss" ELSE IF revalidates THEN "stale" ELSE "fresh",
       ![c].background = revalidates /\ background,
       ![c].rv = IF ~revalidates THEN "none" ELSE IF throws THEN "failed" ELSE "running",
       ![c].fn = IF ~revalidates THEN "notCalled" ELSE IF throws THEN "threw" ELSE "pending",
       ![c].fnCalls = IF revalidates THEN 1 ELSE 0,
       ![c].settled = IF failed THEN SettleRank ELSE 0,
       ![c].rvError = IF failed THEN "producerError" ELSE "none",
       ![c].events = emitted,
       ![c].pc = IF revalidates /\ ~background
                 THEN (IF throws THEN "rejected" ELSE "awaiting")
                 ELSE "resolved",
       ![c].result = IF revalidates /\ ~background THEN Null ELSE cachedValue,
       ![c].error = IF failed /\ ~background THEN error ELSE "none"]
  /\ unhandled' = IF failed /\ background /\ ~CatchAttached
                  THEN unhandled \cup {c} ELSE unhandled
  /\ UNCHANGED <<storage, pending, now, minTimeToStale, maxTimeToLive>>

\* What line 56-57 can do: run through, throw before any write is issued
\* (serialize, or the first setItem), or throw in the second setItem.
PersistOutcomes == {"ok", "serializeThrows", "setTimeThrows"}

\* Mutant: the catch block rethrows without emitting revalidateFailed.
CaughtSilently(c, base, error) ==
  /\ call' = [call EXCEPT
       ![c] = [base EXCEPT
         !.rv = "failed",
         !.rvError = error,
         !.pc = IF base.background THEN base.pc ELSE "rejected",
         !.error = IF base.background THEN base.error ELSE Rethrown(error)]]
  /\ unhandled' = IF base.background /\ ~CatchAttached
                  THEN unhandled \cup {c} ELSE unhandled

\* line 60-63 reached after the await: emit revalidateFailed and rethrow.
Caught(c, base, error) ==
  /\ call' = [call EXCEPT
       ![c] = [base EXCEPT
         !.rv = "failed",
         !.rvError = error,
         !.events = base.events \o <<Event(EmitterEvents.revalidateFailed, error)>>,
         !.pc = IF base.background THEN base.pc ELSE "rejected",
         !.error = IF base.background THEN base.error ELSE Rethrown(error)]]
  /\ unhandled' = IF base.background /\ ~CatchAttached
                  THEN unhandled \cup {c} ELSE unhandled

\* The producer's promise resolves with v: line 51-59, where serialize or a
\* setItem call may throw.
ProducerResolve(c, v, p) ==
  LET me == [call[c] EXCEPT !.fn = "resolved", !.produced = Str(v), !.persist = p,
                            !.settled = SettleRank]
      persisted == Persist(me.key, v, now)
      writes == [i \in 1..Len(persisted) |-> Issued(c, persisted[i])]
  IN
  /\ call[c].rv = "running"
  /\ \/ /\ p = "ok"
        /\ call' = [call EXCEPT
             ![c] = [me EXCEPT
               !.rv = "fulfilled",
               !.issued = writes,
               !.pc = IF me.background THEN me.pc ELSE "resolved",
               !.result = IF me.background THEN me.result ELSE Str(v)]]
        /\ pending' = pending \o writes
        /\ UNCHANGED unhandled
     \/ /\ p = "serializeThrows"
        /\ Caught(c, me, "serializeError")
        /\ UNCHANGED pending
     \/ /\ p = "setTimeThrows"
        /\ Caught(c, [me EXCEPT !.issued = SubSeq(writes, 1, Len(writes) - 1)],
                  "storageError")
        /\ pending' = pending \o SubSeq(writes, 1, Len(writes) - 1)
  /\ UNCHANGED <<storage, now, minTimeToStale, maxTimeToLive>>

\* The producer's promise rejects: line 51, then line 60-63.
ProducerReject(c) ==
  /\ call[c].rv = "running"
  /\ Caught(c, [call[c] EXCEPT !.fn = "rejected", !.settled = SettleRank],
            "producerError")
  /\ UNCHANGED <<storage, pending, now, minTimeToStale, maxTimeToLive>>

\* Mutant: the backend applies the two setItem calls of one revalidate()
\* together.
ApplyWriteAtomic ==
  LET n == IF Len(pending) >= 2 /\ pending[2].by = pending[1].by THEN 2 ELSE 1
      applied == {pending[i].slot : i \in 1..n}
  IN
  /\ pending # <<>>
  /\ storage' = [s \in Slots |->
                   IF s \in applied
                   THEN pending[CHOOSE i \in 1..n : pending[i].slot = s].raw
                   ELSE storage[s]]
  /\ pending' = SubSeq(pending, n + 1, Len(pending))
  /\ UNCHANGED <<now, minTimeToStale, maxTimeToLive, call, unhandled>>

\* Mutant: the backend applies the newest setItem call still pending.
ApplyWriteNewestFirst ==
  /\ pending # <<>>
  /\ storage' = [storage EXCEPT
       ![pending[Len(pending)].slot] = pending[Len(pending)].raw]
  /\ pending' = SubSeq(pending, 1, Len(pending) - 1)
  /\ UNCHANGED <<now, minTimeToStale, maxTimeToLive, call, unhandled>>

\* The backend applies the oldest setItem call still pending.
ApplyWrite ==
  /\ pending # <<>>
  /\ storage' = [storage EXCEPT ![Head(pending).slot] = Head(pending).raw]
  /\ pending' = Tail(pending)
  /\ UNCHANGED <<now, minTimeToStale, maxTimeToLive, call, unhandled>>

\* Time passes.
Tick ==
  /\ now < EndTime
  /\ now' = now + 1
  /\ UNCHANGED <<storage, pending, minTimeToStale, maxTimeToLive, call, unhandled>>

Next ==
  \/ \E c \in Calls, k \in Keys, isFn \in BOOLEAN : Invoke(c, k, isFn)
  \/ \E c \in Calls : ReadValue(c)
  \/ \E c \in Calls : ReadTime(c)
  \/ \E c \in Calls, throws \in BOOLEAN : Classify(c, throws)
  \/ \E c \in Calls, v \in Produced, p \in PersistOutcomes : ProducerResolve(c, v, p)
  \/ \E c \in Calls : ProducerReject(c)
  \/ ApplyWrite
  \/ Tick

Spec == Init /\ [][Next]_vars

\* The engine over a storage that holds nothing yet.
InitEmpty == Init /\ \A s \in Slots : storage[s] = Null
SpecEmpty == InitEmpty /\ [][Next]_vars

\* ------------------------------------------------------- reading a history

\* The names of the events get() call c has emitted, in order.
Names(c) == [i \in 1..Len(call[c].events) |-> call[c].events[i].name]

LastEvent(c) == call[c].events[Len(call[c].events)]

StartsWith(seq, prefix) ==
  /\ Len(seq) >= Len(prefix)
  /\ SubSeq(seq, 1, Len(prefix)) = prefix

\* Call c has run the block after its two reads (both reads succeeded).
Classified(c) ==
  /\ call[c].pc \in {"awaiting", "resolved", "rejected"}
  /\ call[c].gotValue /\ call[c].gotTime

\* What call c found in storage, deserialized.
ReadCached(c) == Deserialize(call[c].rawValue)

IsTruthy(v) == ~v.null /\ v.s # ""

WithinTimeToLive(age) == maxTimeToLive.inf \/ age <= maxTimeToLive.n

NoEntry(c) == Classified(c) /\ call[c].rawValue.null /\ call[c].rawTime.null

FreshEntry(c) ==
  /\ Classified(c)
  /\ IsTruthy(ReadCached(c))
  /\ call[c].cachedAge < minTimeToStale
  /\ WithinTimeToLive(minTimeToStale)

StaleEntry(c) ==
  /\ Classified(c)
  /\ IsTruthy(ReadCached(c))
  /\ call[c].cachedAge >= minTimeToStale
  /\ WithinTimeToLive(call[c].cachedAge)

ExpiredEntry(c) ==
  /\ Classified(c)
  /\ ~call[c].rawValue.null /\ ~call[c].rawTime.null
  /\ ~WithinTimeToLive(call[c].cachedAge)

MissEntry(c) ==
  /\ Classified(c)
  /\ ~IsTruthy(ReadCached(c)) \/ ~WithinTimeToLive(call[c].cachedAge)

\* The producer of call c returned and line 56-57 ran through.
ProducerSucceeded(c) == call[c].fn = "resolved" /\ call[c].persist = "ok"

\* The producer of call c threw or rejected.
ProducerFailed(c) == call[c].fn \in {"threw", "rejected"}

\* Call c issued exactly: the serialized result under key, then a timestamp
\* under key_time.
WroteValueThenTime(c) ==
  /\ Len(call[c].issued) = 2
  /\ call[c].issued[1] =
       [slot |-> call[c].key, raw |-> Str("s:" \o call[c].produced.s), by |-> c]
  /\ call[c].issued[2].slot = call[c].key \o "_time"
  /\ call[c].issued[2].by = c
  /\ \E t \in StartTime..now : call[c].issued[2].raw = Str(ToString(t))

\* No revalidation is running and the backend has applied every write.
Quiescent == pending = <<>> /\ \A c \in Calls : call[c].rv # "running"

\* The revalidations of key k that issued a write.
Writers(k) == {c \in Calls : call[c].key = k /\ call[c].issued # <<>>}

\* Among a non-empty set of calls, the one whose producer settled last.
SettledLast(set) == CHOOSE c \in set : \A d \in set : call[d].settled <= call[c].settled

\* The setItem calls of call c the backend has not applied yet.
PendingOf(c) == {i \in 1..Len(pending) : pending[i].by = c}

\* ------------------------------------------------------------------ claims

\* C1: for a key with no entry (value and timestamp both absent) a get() whose
\* producer succeeds emits exactly invoke, cacheMiss, revalidate, resolves with
\* the producer's result and writes the value under key and a timestamp under
\* key_time.
C1_NoEntryEmitsMissOnly ==
  \A c \in Calls :
    (NoEntry(c) /\ ProducerSucceeded(c)) =>
      /\ Names(c) = <<"invoke", "cacheMiss", "revalidate">>
      /\ call[c].pc = "resolved"
      /\ call[c].result = call[c].produced
      /\ WroteValueThenTime(c)

\* C2: a truthy cached value of age minTimeToStale <= a <= maxTimeToLive: get()
\* emits invoke then cacheHit, resolves with the cached value, invokes the
\* producer exactly once, and when the producer succeeds issues the writes of
\* its result and of a new timestamp.
C2_StaleHitRevalidatesOnce ==
  \A c \in Calls :
    StaleEntry(c) =>
      /\ StartsWith(Names(c), <<"invoke", "cacheHit">>)
      /\ call[c].pc = "resolved"
      /\ call[c].result = ReadCached(c)
      /\ call[c].fnCalls = 1
      /\ "revalidate" \in {Names(c)[i] : i \in 1..Len(Names(c))}
      /\ ProducerSucceeded(c) =>
           /\ WroteValueThenTime(c)
           /\ \E t \in NumberOf(call[c].rawTime)..now :
                call[c].issued[2].raw = Str(ToString(t))

C2_Witness ==
  \E c \in Calls :
    /\ StaleEntry(c) /\ ProducerSucceeded(c)
    /\ ~call[c].rawTime.null
    /\ call[c].produced # ReadCached(c)

\* C3: on the stale path get() never waits for the revalidation: it has
\* resolved with the value read from storage while the producer is still
\* running, and whatever the producer does later the result stays that value.
C3_StaleNeverWaits ==
  \A c \in Calls :
    (StaleEntry(c) /\ call[c].rv \in {"running", "fulfilled", "failed"}) =>
      /\ call[c].pc = "resolved"
      /\ call[c].result = ReadCached(c)
      /\ call[c].error = "none"

C3_Witness ==
  \E c \in Calls :
    /\ StaleEntry(c)
    /\ call[c].rv = "running"
    /\ call[c].pc = "resolved"

\* C4: a truthy cached value of age a < minTimeToStale <= maxTimeToLive: every
\* get() emits exactly invoke, cacheHit, resolves with the cached value, never
\* invokes the producer and issues no write.
C4_FreshHitIsReadOnly ==
  \A c \in Calls :
    FreshEntry(c) =>
      /\ Names(c) = <<"invoke", "cacheHit">>
      /\ call[c].pc = "resolved"
      /\ call[c].result = ReadCached(c)
      /\ call[c].fnCalls = 0
      /\ call[c].fn = "notCalled"
      /\ call[c].issued = <<>>
      /\ PendingOf(c) = {}

C4_Witness ==
  /\ \A c \in Calls : FreshEntry(c)
  /\ storage["k"] = Str("s:a")
  /\ storage["k_time"] = Str(ToString(StartTime))
  /\ pending = <<>>

\* C5: an entry of age a > maxTimeToLive: get() emits invoke, cacheExpired,
\* cacheMiss, revalidate in that order, discards the cached value and goes on
\* as for no entry: it waits for the producer, resolves with the producer's
\* result and issues the writes of value and timestamp.
C5_ExpiredIsMiss ==
  \A c \in Calls :
    ExpiredEntry(c) =>
      /\ StartsWith(Names(c), <<"invoke", "cacheExpired", "cacheMiss", "revalidate">>)
      /\ call[c].cachedValue = Null
      /\ call[c].fnCalls = 1
      /\ call[c].fn = "pending" => call[c].pc = "awaiting"
      /\ call[c].pc = "resolved" =>
           ProducerSucceeded(c) /\ call[c].result = call[c].produced
      /\ ProducerSucceeded(c) =>
           /\ Len(Names(c)) = 4
           /\ call[c].pc = "resolved"
           /\ WroteValueThenTime(c)

C5_Witness ==
  \E c \in Calls :
    /\ ExpiredEntry(c) /\ ProducerSucceeded(c)
    /\ IsTruthy(ReadCached(c))
    /\ call[c].result # ReadCached(c)

\* C6: the producer throws or rejects on the miss path (value absent, falsy or
\* expired): get() rejects with that error, revalidateFailed follows revalidate
\* and carries the error, and no write is issued.
C6_MissFailureRejects ==
  \A c \in Calls :
    (MissEntry(c) /\ ProducerFailed(c)) =>
      /\ call[c].pc = "rejected"
      /\ call[c].error = "producerError"
      /\ Len(call[c].events) >= 2
      /\ call[c].events[Len(call[c].events) - 1].name = "revalidate"
      /\ LastEvent(c) = [name |-> "revalidateFailed", error |-> "producerError"]
      /\ call[c].issued = <<>>
      /\ PendingOf(c) = {}

C6_Witness ==
  /\ \E c \in Calls : MissEntry(c) /\ call[c].fn = "threw"
  /\ \E c \in Calls : MissEntry(c) /\ call[c].fn = "rejected"

\* C7: the producer throws or rejects on the stale path: get() still resolves
\* with the stale value, revalidateFailed carries the error, the rejection of
\* the background revalidate() is handled, and no write is issued.
C7_StaleFailureAbsorbed ==
  \A c \in Calls :
    (StaleEntry(c) /\ ProducerFailed(c)) =>
      /\ call[c].pc = "resolved"
      /\ call[c].result = ReadCached(c)
      /\ LastEvent(c) = [name |-> "revalidateFailed", error |-> "producerError"]
      /\ c \notin unhandled
      /\ call[c].issued = <<>>
      /\ PendingOf(c) = {}

C7_Witness ==
  /\ \E c \in Calls : StaleEntry(c) /\ call[c].fn = "threw"
  /\ \E c \in Calls : StaleEntry(c) /\ call[c].fn = "rejected"

\* C8 as stated: wherever a miss-path get() has resolved, both of its writes
\* have completed (storage holds them, none is still pending).
C8_MissWritesAwaited ==
  \A c \in Calls :
    (MissEntry(c) /\ call[c].pc = "resolved") =>
      /\ Len(call[c].issued) = 2
      /\ PendingOf(c) = {}

\* C8 amended: a miss-path get() resolves only after it has issued both
\* setItem calls, the value under key and then the timestamp under key_time;
\* it does not await them, so they may still be pending when it resolves.
C8_MissWritesIssued ==
  \A c \in Calls :
    (MissEntry(c) /\ call[c].pc = "resolved") =>
      /\ WroteValueThenTime(c)
      /\ \A i \in PendingOf(c) : pending[i] \in {call[c].issued[1], call[c].issued[2]}

C8_Witness ==
  \E c \in Calls :
    /\ MissEntry(c) /\ call[c].pc = "resolved"
    /\ Cardinality(PendingOf(c)) = 2
    /\ storage[call[c].key] # call[c].issued[1].raw

\* C9: a truthy value under key with no timestamp under key_time goes the miss
\* path (cacheMiss, producer awaited, producer's result returned), never the
\* hit or stale-background path, whatever the configuration.
C9_NoTimestampIsMiss ==
  \A c \in Calls :
    (Classified(c) /\ IsTruthy(ReadCached(c)) /\ call[c].rawTime.null) =>
      /\ "cacheMiss" \in {Names(c)[i] : i \in 1..Len(Names(c))}
      /\ "cacheHit" \notin {Names(c)[i] : i \in 1..Len(Names(c))}
      /\ ~call[c].background
      /\ call[c].pc = "resolved" => call[c].result = call[c].produced

\* C10: revalidation is not deduplicated: two get() calls on one key that both
\* take the stale path each invoke the producer once and each resolve with the
\* stale value; when both producers succeed the value slot and the timestamp
\* slot are each written twice.
C10_NoDeduplication ==
  \A c \in Calls, d \in Calls :
    (c # d /\ call[c].key = call[d].key /\ StaleEntry(c) /\ StaleEntry(d)) =>
      /\ call[c].fnCalls = 1 /\ call[d].fnCalls = 1
      /\ call[c].pc = "resolved" /\ call[c].result = ReadCached(c)
      /\ call[d].pc = "resolved" /\ call[d].result = ReadCached(d)
      /\ (ProducerSucceeded(c) /\ ProducerSucceeded(d)) =>
           /\ WroteValueThenTime(c)
           /\ WroteValueThenTime(d)

C10_Witness ==
  \E c \in Calls, d \in Calls :
    /\ c # d /\ call[c].key = call[d].key
    /\ StaleEntry(c) /\ StaleEntry(d)
    /\ call[c].rawValue = call[d].rawValue /\ call[c].rawTime = call[d].rawTime
    /\ ProducerSucceeded(c) /\ ProducerSucceeded(d)
    /\ Len(pending) = 4
    /\ Cardinality({i \in 1..4 : pending[i].slot = call[c].key}) = 2
    /\ Cardinality({i \in 1..4 : pending[i].slot = call[c].key \o "_time"}) = 2

EventNames(c) == {Names(c)[i] : i \in 1..Len(Names(c))}

\* C11: expiry takes precedence over staleness under every configuration,
\* minTimeToStale > maxTimeToLive included: an age above maxTimeToLive gives
\* cacheExpired then cacheMiss and an awaited revalidation, no call emits both
\* cacheExpired and cacheHit, and no expired value is returned.
C11_ExpiryTakesPrecedence ==
  \A c \in Calls :
    /\ ~({"cacheExpired", "cacheHit"} \subseteq EventNames(c))
    /\ (Classified(c) /\ ~WithinTimeToLive(call[c].cachedAge)) =>
         /\ StartsWith(Names(c), <<"invoke", "cacheExpired", "cacheMiss", "revalidate">>)
         /\ ~call[c].background
         /\ call[c].fn = "pending" => call[c].pc = "awaiting"
         /\ call[c].pc = "resolved" =>
              /\ call[c].fn = "resolved"
              /\ call[c].result = call[c].produced

C11_Witness ==
  /\ ~maxTimeToLive.inf /\ minTimeToStale > maxTimeToLive.n
  /\ \E c \in Calls :
       /\ Classified(c)
       /\ IsTruthy(ReadCached(c)) /\ ~call[c].rawTime.null
       /\ call[c].cachedAge > maxTimeToLive.n
       /\ call[c].pc = "resolved"
       /\ call[c].result # ReadCached(c)

\* C12: a cached value that deserializes to a falsy value is handled as a
\* missing entry whatever its age, below minTimeToStale included: cacheMiss and
\* no cacheHit, the producer called and awaited, its result returned.
C12_FalsyIsMiss ==
  \A c \in Calls :
    (Classified(c) /\ ~call[c].rawValue.null /\ ~IsTruthy(ReadCached(c))) =>
      /\ "cacheMiss" \in EventNames(c)
      /\ "cacheHit" \notin EventNames(c)
      /\ call[c].fnCalls = 1
      /\ ~call[c].background
      /\ call[c].fn = "pending" => call[c].pc = "awaiting"
      /\ call[c].pc = "resolved" => call[c].result = call[c].produced
      /\ ProducerSucceeded(c) => call[c].pc = "resolved"

C12_Witness ==
  \E c \in Calls :
    /\ Classified(c)
    /\ ~call[c].rawValue.null /\ ~IsTruthy(ReadCached(c))
    /\ ~call[c].rawTime.null
    /\ call[c].cachedAge < minTimeToStale
    /\ call[c].pc = "resolved"
    /\ IsTruthy(call[c].result)

\* The event orders one get() may show once its reads have succeeded.
EventOrders ==
  {<<"invoke">> \o e \o h \o r : 
     e \in {<<>>, <<"cacheExpired">>},
     h \in {<<"cacheHit">>, <<"cacheMiss">>},
     r \in {<<>>, <<"revalidate">>, <<"revalidate", "revalidateFailed">>}}

\* C13: the events of one get() follow one order: invoke first and once, at
\* most one cacheExpired, exactly one of cacheHit and cacheMiss (when the reads
\* succeed), at most one revalidate, at most one revalidateFailed and only
\* after revalidate; the producer is called at most once, after revalidate.
C13_EventOrder ==
  \A c \in Calls :
    /\ call[c].pc = "idle" => Names(c) = <<>>
    /\ (call[c].pc # "idle" /\ ~Classified(c)) => Names(c) = <<"invoke">>
    /\ Classified(c) => Names(c) \in EventOrders
    /\ call[c].fnCalls <= 1
    /\ call[c].fnCalls = 1 <=> "revalidate" \in EventNames(c)
    /\ call[c].fn # "notCalled" <=> call[c].fnCalls = 1

C13_Witness ==
  /\ \E c \in Calls :
       Names(c) = <<"invoke", "cacheExpired", "cacheMiss", "revalidate", "revalidateFailed">>
  /\ \E c \in Calls :
       Names(c) = <<"invoke", "cacheHit", "revalidate", "revalidateFailed">>

\* C14: when one of the two storage reads rejects, get() rejects with that
\* failure; after invoke it emits nothing, calls no producer and issues no
\* write.
C14_ReadFailureRejects ==
  \A c \in Calls :
    call[c].readFailed =>
      /\ call[c].pc = "rejected"
      /\ call[c].error = "storageError"
      /\ Names(c) = <<"invoke">>
      /\ call[c].fnCalls = 0 /\ call[c].fn = "notCalled"
      /\ call[c].rv = "none"
      /\ call[c].issued = <<>>
      /\ PendingOf(c) = {}

C14_Witness ==
  /\ \E c \in Calls : call[c].readFailed /\ ~call[c].gotValue
  /\ \E c \in Calls : call[c].readFailed /\ call[c].gotValue /\ ~call[c].gotTime
  /\ \A s \in Slots : storage[s] = Null

\* C15: value and timestamp are not written atomically: no step changes the
\* value slot and the timestamp slot of a key together, so a get() can read
\* the value a revalidation wrote with the timestamp from before it and
\* classify the new value by that older timestamp.
C15_PairNotAtomic ==
  [][\A k \in Keys :
       storage'[k] # storage[k] => storage'[k \o "_time"] = storage[k \o "_time"]]_vars

\* Call c read the value revalidation d wrote while d's timestamp write was
\* still pending, and found the just-produced value expired or stale.
C15_Witness ==
  \E c \in Calls, d \in Calls :
    /\ c # d /\ call[c].key = call[d].key
    /\ Len(call[d].issued) = 2
    /\ \E i \in 1..Len(pending) : pending[i] = call[d].issued[2]
    /\ Classified(c) /\ call[c].issued = <<>>
    /\ call[c].rawValue = call[d].issued[1].raw
    /\ call[c].rawValue # Str("s:a")
    /\ call[c].rawTime # call[d].issued[2].raw
    /\ IsTruthy(ReadCached(c))
    /\ \/ "cacheExpired" \in EventNames(c)
       \/ StartsWith(Names(c), <<"invoke", "cacheHit", "revalidate">>)

\* C16: a revalidation whose producer succeeds issues the value write and,
\* next to it, the timestamp write; so from empty storage, with writes applied
\* in the order issued, a present timestamp slot means a present value slot;
\* and a revalidation whose producer fails issues no write.
C16_ValueBeforeTime ==
  /\ \A c \in Calls :
       /\ ProducerSucceeded(c) => WroteValueThenTime(c)
       /\ ProducerFailed(c) => call[c].issued = <<>> /\ PendingOf(c) = {}
  /\ \A i \in 1..Len(pending) :
       LET w == pending[i] IN
       /\ (w.slot \in Keys /\ call[w.by].persist = "ok") =>
            /\ i < Len(pending)
            /\ pending[i + 1] = call[w.by].issued[2]
       /\ (w.slot \notin Keys /\ i > 1) => pending[i - 1] = call[w.by].issued[1]
  /\ \A k \in Keys : ~storage[k \o "_time"].null => ~storage[k].null

C16_Witness ==
  /\ \E c \in Calls : ProducerSucceeded(c) /\ PendingOf(c) = {}
  /\ \E c \in Calls : ProducerFailed(c)
  /\ \A k \in Keys : ~storage[k \o "_time"].null /\ ~storage[k].null

\* C17: when revalidations of one key overlap, the last producer to complete
\* wins: once every revalidation has finished and the backend has applied the
\* writes in the order issued, the stored value and the stored timestamp are
\* the two writes of the revalidation whose producer settled last, whichever
\* get() call started first.
C17_LastSettledWins ==
  \A k \in Keys :
    (Quiescent /\ Writers(k) # {}) =>
      LET last == SettledLast(Writers(k)) IN
      call[last].persist = "ok" =>
        call[last].issued =
          << [slot |-> k, raw |-> storage[k], by |-> last],
             [slot |-> k \o "_time", raw |-> storage[k \o "_time"], by |-> last] >>

C17_Witness ==
  \E c \in Calls, d \in Calls :
    /\ c < d /\ call[c].key = call[d].key
    /\ Quiescent
    /\ ProducerSucceeded(c) /\ ProducerSucceeded(d)
    /\ call[c].settled > call[d].settled
    /\ call[c].produced # call[d].produced
    /\ call[c].issued[2].raw # call[d].issued[2].raw
    /\ storage[call[c].key] = call[c].issued[1].raw
    /\ storage[call[c].key \o "_time"] = call[c].issued[2].raw

\* C18: revalidateFailed is emitted only for a revalidation whose producer
\* threw or rejected: once the producer of a call has returned a value, the
\* call never emits revalidateFailed, and on the miss path get() resolves with
\* that value, also when serialize or a storage write fails afterwards.
C18_FailedOnlyForProducer ==
  \A c \in Calls :
    call[c].fn = "resolved" =>
      /\ "revalidateFailed" \notin EventNames(c)
      /\ MissEntry(c) => call[c].pc = "resolved" /\ call[c].result = call[c].produced

\* C18 as amended: revalidateFailed is emitted exactly for a revalidation whose
\* producer threw or rejected, or whose serialize or setItem call threw after
\* the producer returned; in the latter case a miss-path get() rejects with
\* that error, and when line 56-57 ran through it resolves with the producer's
\* result.
C18_FailedWheneverRevalidateThrows ==
  \A c \in Calls :
    LET threwAfter == call[c].fn = "resolved"
                      /\ call[c].persist \in {"serializeThrows", "setTimeThrows"}
    IN
    /\ "revalidateFailed" \in EventNames(c) <=> (ProducerFailed(c) \/ threwAfter)
    /\ (ProducerSucceeded(c) /\ MissEntry(c)) =>
         call[c].pc = "resolved" /\ call[c].result = call[c].produced
    /\ (threwAfter /\ MissEntry(c)) =>
         /\ call[c].pc = "rejected"
         /\ call[c].error = IF call[c].persist = "serializeThrows"
                            THEN "serializeError" ELSE "storageError"

C18_Witness ==
  \E c \in Calls :
    /\ MissEntry(c)
    /\ call[c].fn = "resolved" /\ call[c].persist = "serializeThrows"
    /\ call[c].issued = <<>>
    /\ Names(c)[Len(Names(c))] = "revalidateFailed"
    /\ call[c].pc = "rejected" /\ call[c].error = "serializeError"

\* C19: a get() call resolves its key once (a function key is called once) and
\* touches only the two slots derived from it: it asks the storage for key and
\* key_time only, issues writes to key and key_time only, every change of a
\* storage slot is such a write of some call, and no slot that holds a value
\* ever loses it.
C19_TouchesOnlyItsTwoSlots ==
  [][/\ \A c \in Calls :
          LET own == {call'[c].key, call'[c].key \o "_time"} IN
          /\ call'[c].pc # "idle" =>
               /\ call'[c].keyCalls = (IF call'[c].keyFn THEN 1 ELSE 0)
               /\ call'[c].key = call[c].key \/ call[c].pc = "idle"
               /\ call'[c].asked = <<call'[c].key, call'[c].key \o "_time">>
          /\ \A i \in 1..Len(call'[c].issued) : call'[c].issued[i].slot \in own
     /\ \A s \in DOMAIN storage :
          /\ ~storage[s].null => ~storage'[s].null
          /\ storage'[s] # storage[s] =>
               \E c \in Calls :
                 /\ s \in {call[c].key, call[c].key \o "_time"}
                 /\ \E i \in 1..Len(call[c].issued) :
                      call[c].issued[i].slot = s /\ call[c].issued[i].raw = storage'[s]
     /\ storage'[Bystander] = storage[Bystander]]_vars

C19_Witness ==
  \E c \in Calls, d \in Calls :
    /\ call[c].keyFn /\ ~call[d].keyFn
    /\ Classified(c) /\ Classified(d)
    /\ Len(call[c].issued) = 2 /\ PendingOf(c) = {}
    /\ storage[call[c].key] # Str("s:a")
    /\ ~storage[call[c].key].null /\ ~storage[call[c].key \o "_time"].null
    /\ storage[Bystander].null

====
